---- MODULE Spec2Model ----
(***************************************************************************)
(* Model of backend/session_manager.py (class SessionManager): the         *)
(* relational message table, the per-session JSON message files, the       *)
(* per-session metadata files, and the operations create_session,          *)
(* save_message, get_conversation_history, cleanup_old_sessions and        *)
(* get_session_stats; of backend/llm_handler.py (prompt formatting,        *)
(* generate_response and its fallback); and of the chat and get_session    *)
(* endpoints of backend/main.py.                                           *)
(*                                                                         *)
(* Environment assumptions, stated once:                                   *)
(*  - datetime.utcnow() is read from the clock `now`, which never goes     *)
(*    back.  Two reads with no I/O between them (create_session, lines 95  *)
(*    and 96) may or may not see the same value; a completed write to the  *)
(*    table or to a file takes at least one clock unit.                    *)
(*  - uuid.uuid4() returns an id that was not handed out before (the code  *)
(*    performs no collision check; the model does not explore the          *)
(*    2^-122 collision).                                                   *)
(*  - max_history and session_timeout are instance attributes (50 and 3600 *)
(*    in __init__); the model runs with small values of both.              *)
(***************************************************************************)
EXTENDS Integers, Sequences, FiniteSets, TLC

\* ------------------------------------------------------------------ bounds
\* Last clock value; every stored message consumes one clock unit.
MaxTime == 3
\* self.max_history (session_manager.py:48 sets 50), scaled down.
max_history == 2
\* self.session_timeout (session_manager.py:49 sets 3600), scaled down.
session_timeout == 2

\* The ids uuid4 hands out in a run, in the order it hands them out: the ids
\* are opaque tokens, so "s1" only names the first one.
IdOrder == << "s1", "s2" >>

\* An id a client made up and sends as 'session_id': create_session never
\* returned it.
ClientId == "c1"

\* The session ids uuid4 hands out.
SessionIds == { IdOrder[i] : i \in 1..Len(IdOrder) }

\* The ids under which something can be stored: save_message takes any id.
StoreIds == SessionIds \cup {ClientId}

\* The (role, content, emotion) arguments callers pass to save_message.  The
\* code validates none of them, so a role outside {user, assistant} with empty
\* content is among them; "None" is Python's None (the emotion default).
Payloads ==
    { [role |-> "user",   content |-> "hi", emotion |-> "sad"],
      [role |-> "system", content |-> "",   emotion |-> "None"] }

ValidRoles == {"user", "assistant"}

\* ----------------------------------------------------------------- helpers
\* datetime.isoformat(): the textual form kept in files and returned to callers.
Iso(t) == <<"iso", t>>

\* datetime.fromisoformat(): parses the textual form back.
FromIso(s) == s[2]

Min(a, b) == IF a < b THEN a ELSE b

\* messages[-n:] of Python, for n > 0.
LastN(s, n) == IF Len(s) > n THEN SubSeq(s, Len(s) - n + 1, Len(s)) ELSE s

\* .limit(n) of a query: the first n rows of the ordered result.
Limit(s, n) == SubSeq(s, 1, Min(n, Len(s)))

RECURSIVE InsertByTimestamp_Descending(_, _)
\* InsertByTimestamp with a fault: `row` goes before the first earlier row.
InsertByTimestamp_Descending(sorted, row) ==
    IF sorted = << >> THEN << row >>
    ELSE IF row.timestamp > Head(sorted).timestamp
         THEN << row >> \o sorted
         ELSE << Head(sorted) >> \o InsertByTimestamp_Descending(Tail(sorted), row)

RECURSIVE InsertByTimestamp(_, _)
\* One step of the sort: `row` goes before the first row with a later timestamp.
InsertByTimestamp(sorted, row) ==
    IF sorted = << >> THEN << row >>
    ELSE IF row.timestamp < Head(sorted).timestamp
         THEN << row >> \o sorted
         ELSE << Head(sorted) >> \o InsertByTimestamp(Tail(sorted), row)

RECURSIVE OrderByTimestamp(_)
\* .order_by(ConversationMessage.timestamp): ascending timestamp.
OrderByTimestamp(rows) ==
    IF rows = << >> THEN << >>
    ELSE InsertByTimestamp(OrderByTimestamp(SubSeq(rows, 1, Len(rows) - 1)),
                           rows[Len(rows)])

\* ------------------------------------------------------------------- state
VARIABLES
    now,        \* the clock datetime.utcnow() reads
    dbUp,       \* whether calls on the relational store succeed
    db,         \* table `messages`, rows in insertion (autoincrement id) order
    files,      \* <sid>_messages.json: its list; << >> when the file is absent
    meta,       \* <sid>_metadata.json: a function on the sids whose file exists
    issued,     \* ids create_session has returned
    last,       \* the latest call: its arguments, the I/O outcomes it met, its return
    appended,   \* per session, the messages save_message accepted (returned True), in order
    llm,        \* the latest call on LLMHandler since the last request arrived
    chat,       \* the /api/v1/chat request being served: its locals and its position
    sweep       \* the cleanup_old_sessions call in progress: its locals and its position

vars == << now, dbUp, db, files, meta, issued, last, appended, llm, chat, sweep >>

\* A row of table `messages` (class ConversationMessage).
Row(sid, p, t) ==
    [session_id |-> sid, role |-> p.role, content |-> p.content,
     emotion |-> p.emotion, timestamp |-> t]

\* The dict save_message's file path stores and both read paths return.
Entry(role, content, emotion, t) ==
    [role |-> role, content |-> content, emotion |-> emotion, timestamp |-> Iso(t)]

\* No call on LLMHandler yet.
NoLlmCall ==
    [op |-> "none", history |-> << >>, message |-> "", emotion |-> "",
     apiOk |-> TRUE, raised |-> FALSE, messages |-> << >>, ret |-> ""]

\* No /api/chat request in progress.
NoChat ==
    [pc |-> "idle", sid |-> "", message |-> "", emotion |-> "",
     history |-> [none |-> FALSE, messages |-> << >>],
     before |-> << >>, reply |-> "", status |-> 0]

\* No cleanup_old_sessions call in progress.
NoSweep ==
    [pc |-> "idle", cutoff_time |-> 0, pending |-> {}, session_id |-> "",
     cleaned_count |-> 0]

NoCall ==
    [op |-> "none", sid |-> "", role |-> "", content |-> "", emotion |-> "",
     timestamp |-> Iso(0), dbUp |-> TRUE, fileOk |-> TRUE, metaOk |-> TRUE,
     ret |-> TRUE, count |-> 0]

Init ==
    /\ now = 0
    /\ dbUp = TRUE
    /\ db = << >>
    /\ files = [s \in StoreIds |-> << >>]
    /\ meta = << >>
    /\ issued = {}
    /\ last = NoCall
    /\ appended = [s \in StoreIds |-> << >>]
    /\ llm = NoLlmCall
    /\ chat = NoChat
    /\ sweep = NoSweep

\* ---------------------------------------------------------- create_session
\* NewSessionMetadata with a fault: the counter starts at one.
NewSessionMetadata_CountsFromOne(sid, t1, t2) ==
    [session_id |-> sid, created_at |-> Iso(t1), last_activity |-> Iso(t2),
     message_count |-> 1]

\* The initial metadata dict; created_at and last_activity are two clock reads.
NewSessionMetadata(sid, t1, t2) ==
    [session_id |-> sid, created_at |-> Iso(t1), last_activity |-> Iso(t2),
     message_count |-> 0]

\* str(uuid.uuid4()), line 90: the next id not handed out so far.
Uuid4 == IdOrder[Cardinality(issued) + 1]

\* create_session: a new id; the metadata file is written unless the write
\* fails (metaOk = FALSE), and the id is returned either way.
CreateSession(sid, metaOk, d) ==
    /\ sid \notin issued
    /\ now + d <= MaxTime
    /\ issued' = issued \cup {sid}
    /\ meta' = IF metaOk
               THEN [s \in DOMAIN meta \cup {sid} |->
                        IF s = sid THEN NewSessionMetadata(sid, now, now + d)
                        ELSE meta[s]]
               ELSE meta
    /\ now' = now + d
    /\ last' = [NoCall EXCEPT !.op = "create", !.sid = sid, !.metaOk = metaOk]
    /\ UNCHANGED << dbUp, db, files, appended >>

\* ------------------------------------------------------------ save_message
\* Truncate with a fault: the file is never cut.
Truncate_KeepsAll(msgs) == msgs

\* Lines 193-195: keep only the max_history most recent messages.
Truncate(msgs) == IF Len(msgs) > max_history THEN LastN(msgs, max_history) ELSE msgs

\* SaveMessageToFile with a fault: the emotion argument is not written.
SaveMessageToFile_DropsEmotion(msgs, p, t, fileOk) ==
    IF fileOk
    THEN [msgs |-> Truncate(Append(msgs, Entry(p.role, p.content, "None", t))),
          ret |-> TRUE]
    ELSE [msgs |-> msgs, ret |-> FALSE]

\* SaveMessageToFile with a fault: the except branch returns True as well.
SaveMessageToFile_AlwaysTrue(msgs, p, t, fileOk) ==
    IF fileOk
    THEN [msgs |-> Truncate(Append(msgs, Entry(p.role, p.content, p.emotion, t))),
          ret |-> TRUE]
    ELSE [msgs |-> msgs, ret |-> TRUE]

\* _save_message_to_file: the new list of the file and the value returned.
SaveMessageToFile(msgs, p, t, fileOk) ==
    IF fileOk
    THEN [msgs |-> Truncate(Append(msgs, Entry(p.role, p.content, p.emotion, t))),
          ret |-> TRUE]
    ELSE [msgs |-> msgs, ret |-> FALSE]

\* UpdateSessionMetadata with a fault: every session's metadata is touched.
UpdateSessionMetadata_AllSessions(m, sid, t, metaOk) ==
    IF sid \in DOMAIN m /\ metaOk
    THEN [s \in DOMAIN m |->
            [m[s] EXCEPT !.last_activity = Iso(t),
                         !.message_count = m[s].message_count + 1]]
    ELSE m

\* _update_session_metadata: only an existing, readable and writable file is
\* updated; every error is swallowed.
UpdateSessionMetadata(m, sid, t, metaOk) ==
    IF sid \in DOMAIN m /\ metaOk
    THEN [m EXCEPT ![sid].last_activity = Iso(t),
                   ![sid].message_count = m[sid].message_count + 1]
    ELSE m

\* The row save_message commits to the table.
DbInsert(rows, sid, p, t) == Append(rows, Row(sid, p, t))

\* save_message: the durable write and, after it, the metadata update; on any
\* failure of the durable write, the file store.
SaveMessage(sid, p, fileOk, metaOk) ==
    /\ now < MaxTime
    /\ IF dbUp
       THEN /\ db' = DbInsert(db, sid, p, now)
            /\ meta' = UpdateSessionMetadata(meta, sid, now + 1, metaOk)
            /\ files' = files
            /\ now' = now + 1
            /\ appended' = [appended EXCEPT
                   ![sid] = Append(@, Entry(p.role, p.content, p.emotion, now))]
            /\ last' = [op |-> "append", sid |-> sid, role |-> p.role,
                        content |-> p.content, emotion |-> p.emotion,
                        timestamp |-> Iso(now), dbUp |-> TRUE, fileOk |-> TRUE,
                        metaOk |-> metaOk,
                        ret |-> TRUE, count |-> 0]
       ELSE LET r == SaveMessageToFile(files[sid], p, now, fileOk) IN
            /\ files' = [files EXCEPT ![sid] = r.msgs]
            /\ db' = db
            /\ meta' = meta
            /\ now' = IF r.ret THEN now + 1 ELSE now
            /\ appended' = IF r.ret
                           THEN [appended EXCEPT
                                   ![sid] = Append(@, Entry(p.role, p.content, p.emotion, now))]
                           ELSE appended
            /\ last' = [op |-> "append", sid |-> sid, role |-> p.role,
                        content |-> p.content, emotion |-> p.emotion,
                        timestamp |-> Iso(now), dbUp |-> FALSE, fileOk |-> fileOk,
                        metaOk |-> TRUE, ret |-> r.ret, count |-> 0]
    /\ UNCHANGED << dbUp, issued >>

\* -------------------------------------------------- get_conversation_history
\* The query of lines 220-224 on the table `rows`.
DbQuery(rows, sid) ==
    Limit(OrderByTimestamp(SelectSeq(rows, LAMBDA r : r.session_id = sid)),
          max_history)

\* Lines 229-236: a row as the dict handed to the caller.
RowToEntry(r) == Entry(r.role, r.content, r.emotion, r.timestamp)

\* _get_history_from_file on the file's list: [] when the file is absent, the
\* list when it can be read, None when reading it fails.
GetHistoryFromFile(msgs, fileOk) ==
    IF msgs = << >> THEN [none |-> FALSE, messages |-> << >>]
    ELSE IF fileOk THEN [none |-> FALSE, messages |-> msgs]
    ELSE [none |-> TRUE, messages |-> << >>]

\* get_conversation_history on given stores: the table's rows when the query
\* works and returns any, the file otherwise.
HistoryOf(rows, msgs, sid, dbOk, fileOk) ==
    LET found == IF dbOk THEN DbQuery(rows, sid) ELSE << >> IN
    IF found # << >>
    THEN [none |-> FALSE, messages |-> [i \in 1..Len(found) |-> RowToEntry(found[i])]]
    ELSE GetHistoryFromFile(msgs, fileOk)

\* get_conversation_history(sid) in the current state.
GetHistory(sid, dbOk, fileOk) == HistoryOf(db, files[sid], sid, dbOk, fileOk)

\* main.py get_session: GET /api/v1/sessions/<sid>, 404 exactly when the
\* history is None.
GetSession(sid, dbOk, fileOk) ==
    LET history == GetHistory(sid, dbOk, fileOk)
    IN  IF history.none
        THEN [status |-> 404, code |-> "SESSION_NOT_FOUND", history |-> << >>]
        ELSE [status |-> 200, code |-> "", history |-> history.messages]

\* ---------------------------------------------------- cleanup_old_sessions
\* ExpiredSessions with a fault: the comparison is off by one clock unit.
ExpiredSessions_OffByOne(m, cutoff) ==
    { s \in DOMAIN m : FromIso(m[s].last_activity) < cutoff - 1 }

\* ExpiredSessions with a fault: the loop stops after the first expired session.
ExpiredSessions_OnlyFirst(m, cutoff) ==
    LET e == { s \in DOMAIN m : FromIso(m[s].last_activity) < cutoff }
    IN  { s \in e : \A i \in 1..Len(IdOrder) :
                        IdOrder[i] \in e => \E j \in 1..i : IdOrder[j] = s }

\* Line 325: the sessions whose metadata says last_activity < cutoff_time.
ExpiredSessions(m, cutoff) ==
    { s \in DOMAIN m : FromIso(m[s].last_activity) < cutoff }

\* Lines 307-314: the rows with timestamp < cutoff_time are deleted.
DeleteOldMessages(rows, cutoff) ==
    SelectSeq(rows, LAMBDA r : ~(r.timestamp < cutoff))

\* Sweep with a fault: the files are swept although the table is unreachable.
Sweep_FilesAnyway(rows, m, f, cutoff, bad, dbOk) ==
    LET gone == ExpiredSessions(m, cutoff) \ bad
    IN  [db |-> IF dbOk THEN DeleteOldMessages(rows, cutoff) ELSE rows,
         meta |-> [s \in DOMAIN m \ gone |-> m[s]],
         files |-> [s \in DOMAIN f |-> IF s \in gone THEN << >> ELSE f[s]],
         count |-> Cardinality(gone)]

\* cleanup_old_sessions on given stores: what it leaves of them and what it
\* returns.  With the table unreachable the sweep fails as a whole and returns
\* 0; otherwise old rows go first, then the expired sessions' files.  `bad` are
\* the expired sessions whose file handling raised before the unlink (lines
\* 339-340 log the error and go on to the next file).
Sweep(rows, m, f, cutoff, bad, dbOk) ==
    LET gone == ExpiredSessions(m, cutoff) \ bad
    IN  IF dbOk
        THEN [db |-> DeleteOldMessages(rows, cutoff),
              meta |-> [s \in DOMAIN m \ gone |-> m[s]],
              files |-> [s \in DOMAIN f |-> IF s \in gone THEN << >> ELSE f[s]],
              count |-> Cardinality(gone)]
        ELSE [db |-> rows, meta |-> m, files |-> f, count |-> 0]

\* cleanup_old_sessions in the current state.
CleanupOldSessions(bad) ==
    LET cutoff == now - session_timeout
        swept == Sweep(db, meta, files, cutoff, bad, dbUp)
    IN
    /\ bad \subseteq ExpiredSessions(meta, cutoff)
    /\ db' = swept.db
    /\ meta' = swept.meta
    /\ files' = swept.files
    /\ last' = IF dbUp
               THEN [NoCall EXCEPT !.op = "cleanup", !.fileOk = (bad = {}),
                                   !.count = swept.count]
               ELSE [NoCall EXCEPT !.op = "cleanup", !.dbUp = FALSE,
                                   !.count = swept.count]
    /\ UNCHANGED << now, dbUp, issued, appended >>

\* --------------------------------------------------------- get_session_stats
Max(a, b) == IF a > b THEN a ELSE b

\* The session ids that occur in table `rows` (.distinct()).
DistinctSessions(rows) == { rows[i].session_id : i \in 1..Len(rows) }

\* Line 394: the sessions whose metadata says last_activity > cutoff_time.
ActiveSessions(m, cutoff) ==
    { s \in DOMAIN m : FromIso(m[s].last_activity) > cutoff }

\* get_session_stats: the counts of lines 367-408 (oldest and newest creation
\* times are left out); any exception, the database's included, leads to the
\* dict of lines 419-424.
GetSessionStats(dbOk) ==
    IF dbOk
    THEN LET cutoff_time == now - session_timeout
             active == ActiveSessions(meta, cutoff_time)
         IN  [total_sessions |-> Max(Cardinality(DistinctSessions(db)),
                                     Cardinality(DOMAIN meta)),
              active_sessions |-> Cardinality(active),
              total_messages |-> Len(db),
              error |-> FALSE]
    ELSE [total_sessions |-> 0, active_sessions |-> 0, total_messages |-> 0,
          error |-> TRUE]

\* ------------------------------------------------------------- environment
\* Time passes.
Tick ==
    /\ now < MaxTime
    /\ now' = now + 1
    /\ UNCHANGED << dbUp, db, files, meta, issued, last, appended, llm, chat, sweep >>

\* The relational store becomes unreachable.
DbFail ==
    /\ dbUp
    /\ dbUp' = FALSE
    /\ UNCHANGED << now, db, files, meta, issued, last, appended, llm, chat, sweep >>

\* The relational store is reachable again.
DbRecover ==
    /\ ~dbUp
    /\ dbUp' = TRUE
    /\ UNCHANGED << now, db, files, meta, issued, last, appended, llm, chat, sweep >>

DoCreate ==
    /\ Cardinality(issued) < Len(IdOrder)
    /\ \E metaOk \in BOOLEAN, d \in {0, 1} : CreateSession(Uuid4, metaOk, d)
    /\ UNCHANGED << llm, chat, sweep >>

\* The I/O outcomes a save_message call can meet: the metadata update's when
\* the durable write worked and the file exists, the file write's otherwise.
SaveOutcomes(sid, p) ==
    IF dbUp
    THEN \E metaOk \in (IF sid \in DOMAIN meta THEN BOOLEAN ELSE {TRUE}) :
             SaveMessage(sid, p, TRUE, metaOk)
    ELSE \E fileOk \in BOOLEAN : SaveMessage(sid, p, fileOk, TRUE)

DoSave ==
    /\ \E sid \in issued, p \in Payloads : SaveOutcomes(sid, p)
    /\ UNCHANGED << llm, chat, sweep >>

DoCleanup ==
    /\ \E bad \in SUBSET SessionIds : CleanupOldSessions(bad)
    /\ UNCHANGED << llm, chat, sweep >>

Next == DoCreate \/ DoSave \/ DoCleanup \/ Tick \/ DbFail \/ DbRecover

Spec == Init /\ [][Next]_vars

\* The relational store is unreachable from construction on (_init_database
\* failed, lines 79-82) and for the whole run.
InitDown ==
    /\ now = 0
    /\ dbUp = FALSE
    /\ db = << >>
    /\ files = [s \in StoreIds |-> << >>]
    /\ meta = << >>
    /\ issued = {}
    /\ last = NoCall
    /\ appended = [s \in StoreIds |-> << >>]
    /\ llm = NoLlmCall
    /\ chat = NoChat
    /\ sweep = NoSweep

NextDown == DoCreate \/ DoSave \/ DoCleanup \/ Tick

SpecDown == InitDown /\ [][NextDown]_vars

\* ------------------------------------------------------------ llm_handler.py
\* Most prior turns a call on LLMHandler is given.
MaxTurns == 25

\* history[-20:]: the number of entries forwarded to the provider.
HistoryWindow == 20

\* Python's None, as in Payloads.
None == "None"

\* The mark of a dict that has no key 'emotion'.
NoKey == "<no key>"

\* str.lower() on the tags the model passes around.
Lower(e) ==
    CASE e = "SAD" -> "sad"
      [] e = "Happy" -> "happy"
      [] OTHER -> e

\* dict.get(key, default).
DictGet(d, key, default) == IF key \in DOMAIN d THEN d[key] ELSE default

\* The outcome of a Python expression: a value, or an exception.
Value(v) == [raised |-> FALSE, value |-> v]
Raise == [raised |-> TRUE, value |-> ""]

\* self.system_prompt (its first words).
system_prompt == "You are an emotionally intelligent AI companion named Emot."

\* The dict of _build_emotion_context (the first sentence of each text).
emotion_contexts ==
    ( "happy"     :> "The user seems happy and upbeat."
   @@ "sad"       :> "The user appears sad or down."
   @@ "angry"     :> "The user seems frustrated or angry."
   @@ "surprised" :> "The user appears surprised."
   @@ "fearful"   :> "The user seems anxious or fearful."
   @@ "disgusted" :> "The user appears disgusted or upset about something."
   @@ "neutral"   :> "The user seems calm and neutral." )

\* The dict of _get_fallback_response (the first sentence of each text).
fallback_responses ==
    ( "sad"       :> "I'm here for you."
   @@ "angry"     :> "I can sense you're frustrated."
   @@ "happy"     :> "I love seeing your positive energy!"
   @@ "fearful"   :> "It's okay to feel anxious."
   @@ "surprised" :> "That sounds unexpected!"
   @@ "disgusted" :> "I can tell something is bothering you."
   @@ "neutral"   :> "I'm here and ready to listen." )

\* The seven tags both dicts are keyed by.
EmotionKeys == DOMAIN emotion_contexts

\* _build_emotion_context: user_emotion.lower() raises AttributeError on None.
BuildEmotionContext(user_emotion) ==
    IF user_emotion = None
    THEN Raise
    ELSE Value(DictGet(emotion_contexts, Lower(user_emotion),
                       emotion_contexts["neutral"]))

\* _get_fallback_response: the same lookup in the other dict.
GetFallbackResponse(user_emotion) ==
    IF user_emotion = None
    THEN Raise
    ELSE Value(DictGet(fallback_responses, Lower(user_emotion),
                       fallback_responses["neutral"]))

\* history[-1].get('emotion', 'neutral').
LastUserEmotion(history) ==
    LET tag == history[Len(history)].emotion
    IN  IF tag = NoKey THEN "neutral" ELSE tag

\* RecentHistory with a fault: the window is one entry short.
RecentHistory_OneShort(history) ==
    IF Len(history) > HistoryWindow THEN LastN(history, HistoryWindow - 1) ELSE history

\* history[-20:] if len(history) > 20 else history.
RecentHistory(history) ==
    IF Len(history) > HistoryWindow THEN LastN(history, HistoryWindow) ELSE history

\* _format_conversation_history: the system entry, then the recent turns with
\* every role other than 'user' sent as 'assistant'.
FormatConversationHistory(history) ==
    LET ctx == IF history # << >>
               THEN BuildEmotionContext(LastUserEmotion(history))
               ELSE Value("")
        emotion_context ==
               IF history # << >>
               THEN " Current emotional context: " \o ctx.value
               ELSE ""
        recent_history == RecentHistory(history)
    IN  IF ctx.raised
        THEN Raise
        ELSE Value(<< [role |-> "system", content |-> system_prompt \o emotion_context] >>
                   \o [i \in 1..Len(recent_history) |->
                         [role |-> IF recent_history[i].role = "user"
                                   THEN "user" ELSE "assistant",
                          content |-> recent_history[i].content]])

\* The text the provider returns when the call works.
ApiText == "reply"

\* generate_response: `messages` is the list handed to the provider (empty
\* when formatting raised); any exception inside the try block leads to
\* _get_fallback_response, whose own exception leaves the function.
GenerateResponse(message, history, user_emotion, apiOk) ==
    LET current_history ==
            Append(history, [role |-> "user", content |-> message,
                             emotion |-> user_emotion])
        f == FormatConversationHistory(current_history)
        fallback == GetFallbackResponse(user_emotion)
    IN  IF ~f.raised /\ apiOk
        THEN [raised |-> FALSE, messages |-> f.value, ret |-> ApiText]
        ELSE [raised |-> fallback.raised,
              messages |-> IF f.raised THEN << >> ELSE f.value,
              ret |-> fallback.value]

\* n stored turns of a conversation, as get_conversation_history returns them
\* (without the timestamps, which LLMHandler does not read).
PriorTurns(n) ==
    [i \in 1..n |->
        IF i % 2 = 1
        THEN [role |-> "user", content |-> ToString(i), emotion |-> "sad"]
        ELSE [role |-> "assistant", content |-> ToString(i), emotion |-> "empathetic"]]

\* The values data.get('emotion', 'neutral') hands to generate_response: a
\* recognised tag in either case, an unrecognised one, the default, JSON null.
ChatEmotions == {"sad", "SAD", "confused", "neutral", None}

\* The emotion of the newest entry of a history: as above, or no such key.
TagInputs == ChatEmotions \cup {NoKey}

\* A call of _format_conversation_history.
LlmFormat(history) ==
    LET f == FormatConversationHistory(history)
    IN  /\ llm' = [NoLlmCall EXCEPT !.op = "format", !.history = history,
                                    !.raised = f.raised,
                                    !.messages = IF f.raised THEN << >> ELSE f.value]
        /\ UNCHANGED << now, dbUp, db, files, meta, issued, last, appended, chat, sweep >>

\* A call of generate_response.
LlmGenerate(message, history, user_emotion, apiOk) ==
    LET g == GenerateResponse(message, history, user_emotion, apiOk)
    IN  /\ llm' = [op |-> "generate", history |-> history, message |-> message,
                   emotion |-> user_emotion, apiOk |-> apiOk, raised |-> g.raised,
                   messages |-> g.messages, ret |-> g.ret]
        /\ UNCHANGED << now, dbUp, db, files, meta, issued, last, appended, chat, sweep >>

DoFormat ==
    \/ LlmFormat(<< >>)
    \/ \E n \in 0..MaxTurns, e \in TagInputs :
           LlmFormat(Append(PriorTurns(n),
                            [role |-> "user", content |-> "new", emotion |-> e]))

DoGenerate ==
    \E n \in 0..MaxTurns, e \in ChatEmotions, apiOk \in BOOLEAN :
        LlmGenerate("new", PriorTurns(n), e, apiOk)

NextLLM == DoFormat \/ DoGenerate

\* LLMHandler on its own, over the histories and tags above.
SpecLLM == Init /\ [][NextLLM]_vars

\* ------------------------------------------------------- main.py: chat()
\* The 'message' a request carries.
ChatMessages == {"hi"}

\* The 'emotion' a request carries: a tag, or JSON null.
RequestEmotions == {"sad", None}

\* ChatAfter with a fault: the user message is saved before the reply is
\* generated.
ChatAfter_SaveFirst(pc) ==
    CASE pc = "history"        -> "save_user"
      [] pc = "save_user"      -> "generate"
      [] pc = "generate"       -> "save_assistant"
      [] pc = "save_assistant" -> "idle"

\* The statement of chat() that follows the one at `pc`: line 94
\* (get_conversation_history), lines 97-101 (generate_response), line 104
\* (save the user message), line 105 (save the reply), return.
ChatAfter(pc) ==
    CASE pc = "history"        -> "generate"
      [] pc = "generate"       -> "save_user"
      [] pc = "save_user"      -> "save_assistant"
      [] pc = "save_assistant" -> "idle"

\* Lines 73-91 for a request without session_id: create_session() is called.
\* `before` records what the session holds when the request arrives.  A
\* request is taken while the clock leaves room for its two appends.
ChatReceiveNew(message, emotion) ==
    /\ chat.pc = "idle"
    /\ now + 2 <= MaxTime
    /\ Cardinality(issued) < Len(IdOrder)
    /\ \E metaOk \in BOOLEAN, d \in {0, 1} : CreateSession(Uuid4, metaOk, d)
    /\ chat' = [NoChat EXCEPT !.pc = "history", !.sid = Uuid4,
                              !.message = message, !.emotion = emotion]
    /\ llm' = NoLlmCall
    /\ UNCHANGED sweep

\* Lines 73-91 for a request that names a session: the id is taken as sent,
\* whether create_session returned it or not.
ChatReceive(sid, message, emotion) ==
    /\ chat.pc = "idle"
    /\ now + 2 <= MaxTime
    /\ sid \in issued \cup {ClientId}
    /\ chat' = [NoChat EXCEPT !.pc = "history", !.sid = sid,
                              !.message = message, !.emotion = emotion,
                              !.before = appended[sid]]
    /\ llm' = NoLlmCall
    /\ UNCHANGED << now, dbUp, db, files, meta, issued, last, appended, sweep >>

\* Line 94.
ChatGetHistory ==
    /\ chat.pc = "history"
    /\ \E fileOk \in BOOLEAN :
           chat' = [chat EXCEPT !.pc = ChatAfter(chat.pc),
                                !.history = GetHistory(chat.sid, dbUp, fileOk)]
    /\ UNCHANGED << now, dbUp, db, files, meta, issued, last, appended, llm, sweep >>

\* Lines 97-101; an exception leaves through the handler of lines 116-125
\* with status 500.  generate_response reads a None history as [] (line 145).
\* The request's locals are gone once it has been answered.
ChatGenerate ==
    /\ chat.pc = "generate"
    /\ \E apiOk \in BOOLEAN :
        LET g == GenerateResponse(chat.message, chat.history.messages,
                                  chat.emotion, apiOk)
        IN  /\ llm' = [op |-> "generate", history |-> chat.history.messages,
                       message |-> chat.message, emotion |-> chat.emotion,
                       apiOk |-> apiOk, raised |-> g.raised,
                       messages |-> g.messages, ret |-> g.ret]
            /\ chat' = IF g.raised
                       THEN [NoChat EXCEPT !.status = 500]
                       ELSE [chat EXCEPT !.pc = ChatAfter(chat.pc), !.reply = g.ret]
    /\ UNCHANGED << now, dbUp, db, files, meta, issued, last, appended, sweep >>

\* Line 104; the value save_message returns is not looked at.
ChatSaveUser ==
    /\ chat.pc = "save_user"
    /\ SaveOutcomes(chat.sid, [role |-> "user", content |-> chat.message,
                               emotion |-> chat.emotion])
    /\ chat' = [chat EXCEPT !.pc = ChatAfter(chat.pc)]
    /\ UNCHANGED << llm, sweep >>

\* Lines 105-114.
ChatSaveAssistant ==
    /\ chat.pc = "save_assistant"
    /\ SaveOutcomes(chat.sid, [role |-> "assistant", content |-> chat.reply,
                               emotion |-> "empathetic"])
    /\ chat' = [NoChat EXCEPT !.pc = ChatAfter(chat.pc), !.status = 200]
    /\ UNCHANGED << llm, sweep >>

DoChatReceive ==
    \E message \in ChatMessages, emotion \in RequestEmotions :
        \/ ChatReceiveNew(message, emotion)
        \/ \E sid \in issued \cup {ClientId} : ChatReceive(sid, message, emotion)

NextChat ==
    \/ DoChatReceive
    \/ ChatGetHistory
    \/ ChatGenerate
    \/ ChatSaveUser
    \/ ChatSaveAssistant
    \/ DbFail

\* One /api/v1/chat request at a time; the database may become unavailable
\* between two of its statements.
SpecChat == Init /\ [][NextChat]_vars

\* ------------------------------------- cleanup_old_sessions, step by step
\* The statements of cleanup_old_sessions as separate steps, for runs in which
\* other calls are served between two of them.  `sweep.pc` names the statement
\* to execute next.

\* Line 301: the cutoff is computed once, before anything is read.
SweepBegin ==
    /\ sweep.pc = "idle"
    /\ sweep' = [NoSweep EXCEPT !.pc = "db", !.cutoff_time = now - session_timeout]
    /\ UNCHANGED << now, dbUp, db, files, meta, issued, last, appended, llm, chat >>

\* Lines 305-315: one transaction deletes the old rows; when the table is
\* unreachable the call ends through lines 347-349 with 0.
SweepDb ==
    /\ sweep.pc = "db"
    /\ IF dbUp
       THEN /\ db' = DeleteOldMessages(db, sweep.cutoff_time)
            /\ sweep' = [sweep EXCEPT !.pc = "glob"]
            /\ last' = last
       ELSE /\ db' = db
            /\ sweep' = NoSweep
            /\ last' = [NoCall EXCEPT !.op = "cleanup", !.dbUp = FALSE, !.count = 0]
    /\ UNCHANGED << now, dbUp, files, meta, issued, appended, llm, chat >>

\* Line 318: the metadata files present when the directory is listed.
SweepGlob ==
    /\ sweep.pc = "glob"
    /\ sweep' = [sweep EXCEPT !.pc = "files", !.pending = DOMAIN meta]
    /\ UNCHANGED << now, dbUp, db, files, meta, issued, last, appended, llm, chat >>

\* Lines 320-326 for the next listed file: it is read and its last_activity
\* compared with the cutoff.
SweepRead(s) ==
    /\ sweep.pc = "files"
    /\ s \in sweep.pending
    /\ sweep' = IF s \in ExpiredSessions(meta, sweep.cutoff_time)
                THEN [sweep EXCEPT !.pc = "unlink_metadata", !.session_id = s,
                                   !.pending = @ \ {s}]
                ELSE [sweep EXCEPT !.pending = @ \ {s}]
    /\ UNCHANGED << now, dbUp, db, files, meta, issued, last, appended, llm, chat >>

\* Line 329.
SweepUnlinkMetadata ==
    /\ sweep.pc = "unlink_metadata"
    /\ meta' = [s \in DOMAIN meta \ {sweep.session_id} |-> meta[s]]
    /\ sweep' = [sweep EXCEPT !.pc = "unlink_messages"]
    /\ UNCHANGED << now, dbUp, db, files, issued, last, appended, llm, chat >>

\* Lines 332-336.
SweepUnlinkMessages ==
    /\ sweep.pc = "unlink_messages"
    /\ files' = [files EXCEPT ![sweep.session_id] = << >>]
    /\ sweep' = [sweep EXCEPT !.pc = "files", !.cleaned_count = @ + 1]
    /\ UNCHANGED << now, dbUp, db, meta, issued, last, appended, llm, chat >>

\* Lines 342-345: the listed files are exhausted.
SweepReturn ==
    /\ sweep.pc = "files"
    /\ sweep.pending = {}
    /\ last' = [NoCall EXCEPT !.op = "cleanup", !.count = sweep.cleaned_count]
    /\ sweep' = NoSweep
    /\ UNCHANGED << now, dbUp, db, files, meta, issued, appended, llm, chat >>

DoSweepRead == \E s \in SessionIds : SweepRead(s)

NextSweep ==
    \/ DoCreate
    \/ DoSave
    \/ Tick
    \/ DbFail
    \/ DbRecover
    \/ SweepBegin
    \/ SweepDb
    \/ SweepGlob
    \/ DoSweepRead
    \/ SweepUnlinkMetadata
    \/ SweepUnlinkMessages
    \/ SweepReturn

\* One sweep at a time, with creates and appends served between its statements.
SpecSweep == Init /\ [][NextSweep]_vars

\* ------------------------------------------------------------------ claims
\* A history without its timestamps: the (role, content, emotion) entries.
StripTime(h) ==
    [i \in 1..Len(h) |->
        [role |-> h[i].role, content |-> h[i].content, emotion |-> h[i].emotion]]

\* The rows of `rows` that belong to session sid.
RowsOf(rows, sid) == SelectSeq(rows, LAMBDA r : r.session_id = sid)

\* The call in `last` is a save_message that has just returned.
Appended == last.op = "append"

\* C1: after a successful AppendMessage of a valid (role, content), GetHistory
\* on the same session, served under the store availability the append met,
\* ends with that message: same role and content, and a timestamp not before
\* any earlier entry's.
C1_HistoryEndsWithAppended ==
    (Appended /\ last.ret /\ last.role \in ValidRoles /\ last.content # "") =>
        LET h == GetHistory(last.sid, last.dbUp, TRUE).messages IN
        /\ h # << >>
        /\ h[Len(h)].role = last.role
        /\ h[Len(h)].content = last.content
        /\ h[Len(h)].timestamp = last.timestamp
        /\ \A i \in 1..Len(h) :
              FromIso(h[i].timestamp) <= FromIso(h[Len(h)].timestamp)

\* Every message save_message accepted for session s is still held by the
\* store that took it: none was evicted, none was cut off the file.
AllStillStored(s) == Len(RowsOf(db, s)) + Len(files[s]) = Len(appended[s])

\* C2: for a session created in this run, with at most max_history accepted
\* appends and no eviction, GetHistory (both stores healthy at the read)
\* returns exactly the accepted messages in append order, whichever store took
\* each of them.
C2_FreshHistoryIsAppended ==
    \A s \in issued :
        (AllStillStored(s) /\ Len(appended[s]) <= max_history) =>
            GetHistory(s, TRUE, TRUE).messages = appended[s]

\* C3: GetHistory never returns more than max_history entries, for any session
\* and whichever store serves the read.
C3_HistoryAtMostMaxHistory ==
    \A s \in SessionIds, dbOk \in BOOLEAN, fileOk \in BOOLEAN :
        Len(GetHistory(s, dbOk, fileOk).messages) <= max_history

\* More than max_history messages went to one session's file and the read of
\* that session returns max_history of them.
C3_Witness ==
    \E s \in SessionIds :
        /\ Len(appended[s]) > max_history
        /\ RowsOf(db, s) = << >>
        /\ Len(GetHistory(s, dbUp, TRUE).messages) = max_history

\* C4: once more than max_history messages were appended to a session (all
\* of them still in the durable store), GetHistory returns the max_history most
\* recent of them, oldest first.
C4_HistoryIsTrailingWindow ==
    \A s \in SessionIds :
        (Len(appended[s]) > max_history /\ Len(RowsOf(db, s)) = Len(appended[s])) =>
            GetHistory(s, TRUE, TRUE).messages = LastN(appended[s], max_history)

\* C5 as stated: with the durable store down for the whole run every
\* AppendMessage returns true, and GetHistory returns the appended messages.
C5_FallbackAlwaysSucceeds ==
    /\ Appended => last.ret
    /\ \A s \in SessionIds : GetHistory(s, dbUp, TRUE).messages = appended[s]

\* C5, amended: with the durable store down for the whole run, every
\* AppendMessage whose file write does not fail returns true and leaves its
\* message last in the session's file, and GetHistory (the file being readable)
\* returns the max_history most recent accepted messages with the role, content
\* and emotion that were submitted.
C5_FallbackRoundTrip ==
    /\ (Appended /\ last.fileOk) =>
          /\ last.ret
          /\ files[last.sid] # << >>
          /\ files[last.sid][Len(files[last.sid])] =
                [role |-> last.role, content |-> last.content,
                 emotion |-> last.emotion, timestamp |-> last.timestamp]
    /\ (Appended /\ ~last.fileOk) => ~last.ret
    /\ \A s \in SessionIds :
          GetHistory(s, dbUp, TRUE).messages = LastN(appended[s], max_history)

\* The store is down, an append has just been accepted by the file store and
\* the session holds more accepted messages than the file keeps.
C5_Witness ==
    /\ ~dbUp /\ db = << >>
    /\ Appended /\ last.ret
    /\ Len(appended[last.sid]) > max_history
    /\ Len(GetHistory(last.sid, dbUp, TRUE).messages) = max_history

RECURSIVE FileAfter(_)
\* The file of a session all of whose appends `log` went to the file store.
FileAfter(log) ==
    IF log = << >> THEN << >>
    ELSE LET e == log[Len(log)] IN
         SaveMessageToFile(FileAfter(SubSeq(log, 1, Len(log) - 1)),
                           e, FromIso(e.timestamp), TRUE).msgs

RECURSIVE DbAfter(_, _)
\* The table after all of a session's appends `log` went to the durable store.
DbAfter(log, sid) ==
    IF log = << >> THEN << >>
    ELSE LET e == log[Len(log)] IN
         DbInsert(DbAfter(SubSeq(log, 1, Len(log) - 1), sid), sid, e,
                  FromIso(e.timestamp))

\* C6: for every sequence of appends to a session, GetHistory served entirely
\* by the file store returns the same (role, content, emotion) entries as
\* GetHistory served entirely by the durable store.
C6_StoresEquivalent ==
    \A s \in SessionIds :
        StripTime(HistoryOf(<< >>, FileAfter(appended[s]), s, FALSE, TRUE).messages)
      = StripTime(HistoryOf(DbAfter(appended[s], s), << >>, s, TRUE, TRUE).messages)

\* C7: a save_message call returns true exactly when the step wrote the message
\* to the table or to the file, and false exactly when the durable write and
\* the file write both failed.
C7_ReturnsWhetherStored ==
    [][ (last' # last /\ last'.op = "append") =>
           /\ last'.ret \in BOOLEAN
           /\ last'.ret <=> (db' # db \/ files' # files)
           /\ ~last'.ret <=> (~dbUp /\ ~last'.fileOk)
           /\ last'.ret =>
                 \/ db' = Append(db, [session_id |-> last'.sid, role |-> last'.role,
                                      content |-> last'.content,
                                      emotion |-> last'.emotion,
                                      timestamp |-> FromIso(last'.timestamp)])
                 \/ (~dbUp /\ files'[last'.sid] # << >>
                     /\ files'[last'.sid][Len(files'[last'.sid])] =
                           [role |-> last'.role, content |-> last'.content,
                            emotion |-> last'.emotion,
                            timestamp |-> last'.timestamp]) ]_vars

\* An append found both stores failing and returned false.
C7_Witness == Appended /\ ~last.ret /\ ~last.dbUp /\ ~last.fileOk

\* C8: every successful save_message on a session whose metadata exists and
\* can be written bumps last_activity to the current time and message_count
\* by one, whichever store took the message.
C8_SuccessfulAppendUpdatesMetadata ==
    [][ (last' # last /\ last'.op = "append" /\ last'.ret
         /\ last'.sid \in DOMAIN meta /\ last'.metaOk) =>
           /\ last'.sid \in DOMAIN meta'
           /\ meta'[last'.sid].message_count = meta[last'.sid].message_count + 1
           /\ meta'[last'.sid].last_activity = Iso(now') ]_vars

\* C10 as stated: create_session returns the id; after a successful metadata
\* write message_count = 0 and created_at = last_activity, after a failed one
\* no metadata exists.
C10_CreatedAtEqualsLastActivity ==
    last.op = "create" =>
        /\ last.sid \in issued
        /\ IF last.metaOk
           THEN /\ last.sid \in DOMAIN meta
                /\ meta[last.sid].message_count = 0
                /\ meta[last.sid].created_at = meta[last.sid].last_activity
           ELSE last.sid \notin DOMAIN meta

\* C10, amended: create_session returns the id; after a successful metadata
\* write message_count = 0 and created_at <= last_activity (two successive
\* clock reads), after a failed one no metadata exists for the id.
C10_CreateSessionMetadata ==
    last.op = "create" =>
        /\ last.sid \in issued
        /\ IF last.metaOk
           THEN /\ last.sid \in DOMAIN meta
                /\ meta[last.sid].session_id = last.sid
                /\ meta[last.sid].message_count = 0
                /\ FromIso(meta[last.sid].created_at)
                      <= FromIso(meta[last.sid].last_activity)
           ELSE last.sid \notin DOMAIN meta

\* A create_session whose metadata was written with the clock advancing
\* between the two reads.
C10_Witness ==
    /\ last.op = "create" /\ last.metaOk
    /\ last.sid \in DOMAIN meta
    /\ FromIso(meta[last.sid].created_at) < FromIso(meta[last.sid].last_activity)

\* C11: a cleanup_old_sessions sweep that reaches the stores and meets no file
\* error leaves every session whose last_activity is before the cutoff without
\* metadata and without messages in either store, and leaves the metadata and
\* all messages of every other session with metadata unchanged.
C11_SweepRemovesExactlyExpired ==
    [][ (last'.op = "cleanup" /\ last'.dbUp /\ last'.fileOk
         /\ now' = now /\ dbUp' = dbUp) =>
           \A s \in DOMAIN meta :
               IF FromIso(meta[s].last_activity) < now - session_timeout
               THEN /\ s \notin DOMAIN meta'
                    /\ RowsOf(db', s) = << >>
                    /\ files'[s] = << >>
               ELSE /\ s \in DOMAIN meta' /\ meta'[s] = meta[s]
                    /\ RowsOf(db', s) = RowsOf(db, s)
                    /\ files'[s] = files[s] ]_vars

\* C12: when generate_response hands a list to the provider for a history of n
\* prior turns and one new user message, the list after its system entry has
\* exactly min(n + 1, 20) entries: the last entries of history followed by the
\* new message, oldest first, the new message last.
C12_ForwardedTurnsAreWindow ==
    (llm.op = "generate" /\ llm.messages # << >>) =>
        LET n == Len(llm.history)
            all == Append(llm.history, [role |-> "user", content |-> llm.message])
            turns == Tail(llm.messages)
            k == Len(turns)
        IN  /\ llm.messages[1].role = "system"
            /\ k = Min(n + 1, 20)
            /\ \A i \in 1..k :
                   /\ turns[i].content = all[n + 1 - k + i].content
                   /\ turns[i].role = all[n + 1 - k + i].role
            /\ turns[k] = [role |-> "user", content |-> llm.message]

\* 25 prior turns and one new message: 20 turns follow the system entry.
C12_Witness ==
    /\ llm.op = "generate"
    /\ Len(llm.history) = 25
    /\ Len(llm.messages) = 21
    /\ llm.messages[2].content = "7"

\* C13: when the emotion tag of the newest entry is absent or, lower-cased, is
\* not one of the seven keys, _format_conversation_history does not fail and
\* its system entry is the one it produces for the tag neutral.
C13_UnrecognizedTagIsNeutral ==
    (llm.op = "format" /\ llm.history # << >>) =>
        LET newest == llm.history[Len(llm.history)]
            asNeutral == [llm.history EXCEPT ![Len(llm.history)].emotion = "neutral"]
        IN  (newest.emotion = NoKey \/ Lower(newest.emotion) \notin EmotionKeys) =>
                /\ ~llm.raised
                /\ llm.messages # << >>
                /\ llm.messages[1] = FormatConversationHistory(asNeutral).value[1]

\* C15: when the provider call fails, generate_response returns the fallback
\* string keyed by the user's emotion (the neutral string for a tag outside the
\* seven keys) and raises nothing, for every emotion the chat endpoint passes.
C15_ProviderFailureGivesFallback ==
    (llm.op = "generate" /\ ~llm.apiOk) =>
        /\ ~llm.raised
        /\ llm.ret = IF Lower(llm.emotion) \in EmotionKeys
                     THEN fallback_responses[Lower(llm.emotion)]
                     ELSE fallback_responses["neutral"]

\* C14: for an id that was never created and has no message in either store,
\* get_conversation_history returns None and GET /sessions/<id> answers 404
\* SESSION_NOT_FOUND, while a created session without messages gets status 200
\* with an empty list.
C14_UnknownSessionIsNotFound ==
    \A s \in SessionIds :
        (RowsOf(db, s) = << >> /\ files[s] = << >>) =>
            IF s \notin issued
            THEN /\ GetHistory(s, dbUp, TRUE).none
                 /\ GetSession(s, dbUp, TRUE).status = 404
                 /\ GetSession(s, dbUp, TRUE).code = "SESSION_NOT_FOUND"
            ELSE /\ ~GetHistory(s, dbUp, TRUE).none
                 /\ GetSession(s, dbUp, TRUE) =
                        [status |-> 200, code |-> "", history |-> << >>]

\* The entry of a chat turn's user message, whatever its timestamp.
IsUserEntry(e) ==
    e.role = "user" /\ e.content = chat.message /\ e.emotion = chat.emotion

\* C16 (as stated): the inbound user message is persisted before the prompt
\* window is built and the LLM is called, so it is in the store when the LLM
\* call starts.
C16_UserStoredBeforeLlmCall ==
    chat.pc = "generate" =>
        /\ Len(appended[chat.sid]) = Len(chat.before) + 1
        /\ IsUserEntry(appended[chat.sid][Len(appended[chat.sid])])

\* C16 (amended): in every chat turn the stored history is read, then
\* generate_response builds the window from it and the inbound message and
\* calls the LLM while the turn has stored nothing, then the user message is
\* appended, then the reply generate_response returned; every append of a
\* turn is made in one of these two positions.
C16_ChatStepOrder ==
    [][ /\ (llm' # llm /\ llm'.op = "generate") =>
            /\ chat.pc = "generate"
            /\ appended[chat.sid] = chat.before
            /\ llm'.history = chat.history.messages
            /\ llm'.message = chat.message
        /\ (appended' # appended) =>
            LET old == appended[chat.sid]
                log == appended'[chat.sid]
            IN  /\ Len(log) = Len(old) + 1
                /\ llm.op = "generate" /\ ~llm.raised
                /\ llm.message = chat.message /\ llm.ret = chat.reply
                /\ \/ /\ chat.pc = "save_user"
                      /\ old = chat.before
                      /\ IsUserEntry(log[Len(log)])
                   \/ /\ chat.pc = "save_assistant"
                      /\ log[Len(log)].role = "assistant"
                      /\ log[Len(log)].content = chat.reply
                      /\ \/ old = chat.before
                         \/ /\ Len(old) = Len(chat.before) + 1
                            /\ IsUserEntry(old[Len(old)]) ]_vars

\* A finished turn that stored the user message and then the reply.
C16_Witness ==
    /\ chat.pc = "idle" /\ chat.status = 200
    /\ last.op = "append" /\ last.ret /\ last.role = "assistant"
    /\ llm.op = "generate" /\ last.content = llm.ret
    /\ LET log == appended[last.sid]
       IN  /\ Len(log) >= 2
           /\ log[Len(log)].role = "assistant" /\ log[Len(log)].content = llm.ret
           /\ log[Len(log) - 1].role = "user"
           /\ log[Len(log) - 1].content = llm.message

\* C17: get_session_stats always reports total_sessions as the larger of the
\* number of distinct session ids in the table and the number of metadata
\* files, so never less than the number of metadata files, also while the
\* database is unavailable.
C17_TotalSessionsIsMaximum ==
    /\ GetSessionStats(dbUp).total_sessions =
           Max(Cardinality(DistinctSessions(db)), Cardinality(DOMAIN meta))
    /\ GetSessionStats(dbUp).total_sessions >= Cardinality(DOMAIN meta)

\* C18: every message held in the table or in a session's file has role user
\* or assistant and non-empty content (save_message stores nothing when given
\* another role or empty content).
C18_OnlyValidMessagesStored ==
    /\ \A i \in 1..Len(db) :
           db[i].role \in ValidRoles /\ db[i].content # ""
    /\ \A s \in SessionIds : \A i \in 1..Len(files[s]) :
           files[s][i].role \in ValidRoles /\ files[s][i].content # ""

\* C19: a save_message call removes or alters no stored message: every row of
\* the table and every message of every session's file is still there, with
\* the same role, content, emotion and timestamp, after the call.
C19_AppendKeepsStoredMessages ==
    [][ (last' # last /\ last'.op = "append") =>
            /\ Len(db') >= Len(db) /\ SubSeq(db', 1, Len(db)) = db
            /\ \A s \in SessionIds : \A i \in 1..Len(files[s]) :
                   \E j \in 1..Len(files'[s]) : files'[s][j] = files[s][i] ]_vars

\* C20: for every session, the list get_conversation_history returns is in
\* non-decreasing timestamp order, whether the table or the file serves it and
\* whatever the outcome of the reads.
C20_HistoryInTimestampOrder ==
    \A s \in SessionIds : \A dbOk \in BOOLEAN, fileOk \in BOOLEAN :
        LET h == GetHistory(s, dbOk, fileOk).messages
        IN  \A i \in 1..Len(h), j \in 1..Len(h) :
                i < j => FromIso(h[i].timestamp) <= FromIso(h[j].timestamp)

\* A session whose history is served with two messages of different times, and
\* whose file, read on its own, holds a message as well.
C20_Witness ==
    \E s \in SessionIds :
        LET h == GetHistory(s, dbUp, TRUE).messages
        IN  /\ Len(h) >= 2
            /\ FromIso(h[1].timestamp) < FromIso(h[2].timestamp)
            /\ dbUp
            /\ GetHistory(s, FALSE, TRUE).messages # << >>

\* A step of cleanup_old_sessions: the only call that leaves the clock alone
\* and is the latest call afterwards.
SweepStep == last'.op = "cleanup" /\ now' = now /\ dbUp' = dbUp

\* C21: a sweep that reaches the table and meets no file error leaves no row
\* with timestamp before now - session_timeout in the table, no metadata file
\* with last_activity before that cutoff, and no message file of a session
\* whose metadata it removed; it returns the number of metadata files removed.
C21_SweepRemovesOldRowsAndFiles ==
    [][ (SweepStep /\ dbUp /\ last'.fileOk) =>
            LET cutoff == now - session_timeout
            IN  /\ \A i \in 1..Len(db') : ~(db'[i].timestamp < cutoff)
                /\ \A s \in DOMAIN meta' :
                       ~(FromIso(meta'[s].last_activity) < cutoff)
                /\ \A s \in DOMAIN meta :
                       FromIso(meta[s].last_activity) < cutoff =>
                           s \notin DOMAIN meta' /\ files'[s] = << >>
                /\ DOMAIN meta' \subseteq DOMAIN meta
                /\ last'.count = Cardinality(DOMAIN meta \ DOMAIN meta') ]_vars

\* A sweep has just removed a session's metadata, and rows of the table too.
C21_Witness ==
    /\ last.op = "cleanup" /\ last.dbUp /\ last.fileOk
    /\ last.count >= 1
    /\ \E s \in issued : s \notin DOMAIN meta
                         /\ appended[s] # << >> /\ RowsOf(db, s) = << >>
                         /\ files[s] = << >>

\* C22: cleanup_old_sessions is idempotent: run again at the same instant on
\* what a run left, with nothing in between and under the same conditions (the
\* table reachable or not, the same files unreadable), it leaves the table,
\* the message files and the metadata as they are and returns 0.
C22_SweepIsIdempotent ==
    [][ SweepStep =>
            LET cutoff == now - session_timeout
                bad == IF last'.fileOk THEN {} ELSE ExpiredSessions(meta', cutoff)
                again == Sweep(db', meta', files', cutoff, bad, dbUp)
            IN  /\ again.db = db'
                /\ again.meta = meta'
                /\ again.files = files'
                /\ again.count = 0 ]_vars

\* A sweep has just removed both sessions.
C22_Witness ==
    /\ last.op = "cleanup" /\ last.dbUp /\ last.fileOk
    /\ last.count = 2
    /\ DOMAIN meta = {}
    /\ \E s \in issued : appended[s] # << >>

\* C27: with the table unreachable cleanup_old_sessions fails as a whole: it
\* returns 0 and removes no metadata file and no message file (and no row),
\* also when some session's last_activity is before the cutoff.
C27_SweepFailsWithoutDatabase ==
    [][ (SweepStep /\ ~dbUp) =>
            /\ last'.count = 0
            /\ meta' = meta
            /\ files' = files
            /\ db' = db ]_vars

\* A sweep has just failed while a session with a message file was expired.
C27_Witness ==
    /\ last.op = "cleanup" /\ ~last.dbUp /\ ~dbUp
    /\ \E s \in ExpiredSessions(meta, now - session_timeout) : files[s] # << >>

\* The messages physically held for a session: its rows and its file's list.
Held(s) == Len(RowsOf(db, s)) + Len(files[s])

\* C24: a session's message_count never exceeds the number of messages held
\* for it in the table and in its file together.
C24_CountNeverExceedsHeld ==
    \A s \in DOMAIN meta : meta[s].message_count <= Held(s)

\* C25: every session with metadata is counted in active_sessions exactly
\* when a sweep at the same instant would not remove it, also when its
\* last_activity equals the cutoff.
C25_ActiveIffNotEvicted ==
    LET cutoff == now - session_timeout
        swept == Sweep(db, meta, files, cutoff, {}, TRUE)
    IN  /\ \A s \in DOMAIN meta :
               s \in ActiveSessions(meta, cutoff) <=> s \in DOMAIN swept.meta
        /\ dbUp => GetSessionStats(TRUE).active_sessions =
                       Cardinality(DOMAIN swept.meta)

\* C28: every session with a message in the table or in its file has a
\* metadata record.
C28_StoredMessagesHaveMetadata ==
    \A s \in StoreIds : Held(s) > 0 => s \in DOMAIN meta

\* C26: a save_message call on session A changes nothing of any other session
\* B: B's rows, B's message file and B's metadata are unchanged, and
\* get_conversation_history(B) returns the same before and after, whatever the
\* outcome of its reads.
C26_AppendTouchesOnlyItsSession ==
    [][ (last' # last /\ last'.op = "append") =>
            \A B \in SessionIds \ {last'.sid} :
                /\ RowsOf(db', B) = RowsOf(db, B)
                /\ files'[B] = files[B]
                /\ (B \in DOMAIN meta') = (B \in DOMAIN meta)
                /\ B \in DOMAIN meta => meta'[B] = meta[B]
                /\ \A dbOk \in BOOLEAN, fileOk \in BOOLEAN :
                       HistoryOf(db', files'[B], B, dbOk, fileOk) =
                       HistoryOf(db, files[B], B, dbOk, fileOk) ]_vars

\* A message has just been stored for one session while another session has
\* metadata and a message of its own.
C26_Witness ==
    /\ last.op = "append" /\ last.ret
    /\ Len(appended[last.sid]) >= 1
    /\ appended[last.sid][Len(appended[last.sid])].timestamp = last.timestamp
    /\ \E B \in DOMAIN meta \ {last.sid} : Held(B) > 0

\* C23: no statement of a sweep in progress changes anything of a session that
\* is not expired at the sweep's cutoff: its rows, its message file and its
\* metadata are the same after the statement as before, so that the session
\* ends with what it would hold had the sweep not run.
C23_SweepLeavesLiveSessionsAlone ==
    [][ (sweep.pc # "idle" /\ sweep' # sweep) =>
            \A s \in DOMAIN meta \ ExpiredSessions(meta, sweep.cutoff_time) :
                /\ RowsOf(db', s) = RowsOf(db, s)
                /\ files'[s] = files[s]
                /\ s \in DOMAIN meta' /\ meta'[s] = meta[s] ]_vars

====
